---- MODULE Spec2Model ----
(***************************************************************************)
(* Barge-in voice client (02-voice/src/app/page.tsx): the microphone frame *)
(* detector, the interrupt sequence, the playback queue with its consume   *)
(* loops, the socket / audio-context life cycle they run in, and the       *)
(* research tool calls (handleFunctionCall and src/lib/mcpClient.ts).      *)
(*                                                                         *)
(* Every handler of the page runs to completion on one event loop, so one  *)
(* action is one handler.  A consume loop (playAudioQueue) is suspended    *)
(* between source.start() and the source's ended event; each suspended     *)
(* loop is one element of `sources`.                                       *)
(*                                                                         *)
(* Amplitudes are in thousandths of full scale (0.02 is 20).  Times are in *)
(* milliseconds and relative to the present: Now is fixed, a tick moves    *)
(* every recorded time one step into the past, and a time older than the   *)
(* cooldown window is kept as exactly that old, which no comparison of the *)
(* page can tell apart.                                                    *)
(*                                                                         *)
(* The history variables are written by one observer at a time, chosen in  *)
(* Init.  The handlers do not read them; the observer only decides how     *)
(* many audio chunks the remote side delivers (ChunkLimit) and how many    *)
(* script processors a run may hold (ProcessorLimit).                      *)
(***************************************************************************)
EXTENDS Integers, Sequences, FiniteSets, TLC

\* ---------------------------------------------------------------- bounds
MaxChunks == 3
FewChunks == 1
NoChunks == 0
MaxSpeechFrames == 2
MaxProcessors == 1
MaxCapture == 2
MaxCalls == 2
MaxArgs == 3
MaxPending == 1
MaxCount == 2
FrameLen == 2

\* ------------------------------------------------------------- constants
speechThreshold == 20
consecutiveFrames == 2
cooldownMs == 500

\* Date.now(), line 256, with the origin one cooldown window in the past.
Now == cooldownMs
TickMs == cooldownMs \div 2

\* REALTIME_CONFIG.bargeIn, realtime.ts lines 43-48: values its `enabled` and
\* `cooldownMs` settings may be given.
EnabledSettings == {TRUE, FALSE}
CooldownSettings == {TickMs, cooldownMs}

Samples == {0, 20, -30}

\* A function call's JSON argument text arrives in this order of pieces.
ArgParts == <<"head", "tail">>
\* data.name of a function call; REALTIME_CONFIG.tools declares the first two.
ToolNames == {"deep_research", "quick_search", "other"}
\* What fetch() and the research endpoint do with one request.
Fetches == {"rejected", "status", "garbage", "failure", "success"}
DoneTypes == {"response.done", "response.audio.done", "response.cancelled"}
Payloads == {"pcm", "empty", "undecodable"}
Observers == {"playback", "interrupt", "detector", "liveness", "capture", "tools"}

\* How many audio chunks arrive while observer o watches.
ChunkLimit(o) ==
  IF o = "playback" THEN MaxChunks
  ELSE IF o \in {"interrupt", "liveness", "tools"} THEN FewChunks ELSE NoChunks

\* How many script processors may run at once while observer o watches.
ProcessorLimit(o) == IF o = "capture" THEN MaxCapture ELSE MaxProcessors

VARIABLES
  ws,                      \* wsRef.current: "none" or the socket's readyState
  connected,               \* React state `connected`
  ctx,                     \* audioContextRef.current: "none", "running", "closed"
  micPending,              \* getUserMedia promises not yet settled
  processors,              \* script processors whose context is running
  audioQueue,              \* audioQueueRef.current
  isPlaying,               \* isPlayingRef.current
  isAssistantSpeakingRef,  \* isAssistantSpeakingRef.current
  isAssistantSpeaking,     \* React state `isAssistantSpeaking`
  currentAudioSource,      \* currentAudioSourceRef.current: a chunk id, 0 = null
  lastInterruptTime,       \* lastInterruptTimeRef.current
  speechFrames,            \* speechFramesRef.current
  sources,                 \* started sources whose ended event is not yet handled
  nextId,                  \* arrival number of the next audio chunk enqueued
  observe,                 \* which observer writes the history
  started,                 \* playback: ids in the order source.start() was called
  discarded,               \* playback: ids an interrupt removed from the queue
  stopLog,                 \* playback: the last executed interrupt's local stop
  lastReq,                 \* interrupt: the last interrupt() call
  reqAge,                  \* interrupt: time since the last interrupt() call
  execAge,                 \* interrupt: time since the last executed sequence
  nCancel, nClear, nExec,  \* interrupt: totals, counted up to MaxCount
  hist,                    \* detector: the last two microphone frames
  leftTurn,                \* detector: AssistantTurn was left since the last frame
  functionCallArgs,        \* functionCallArgsRef.current, as a sequence of pieces
  isResearching,           \* React state `isResearching`
  inFlight,                \* handleFunctionCall calls awaiting the research client
  callNo,                  \* call_id of the function call the remote side is at
  ownArgs,                 \* tools: the pieces streamed for that function call
  toolLog                  \* tools: the last handleFunctionCall that completed

coreVars == <<audioQueue, isPlaying, isAssistantSpeakingRef, currentAudioSource,
              lastInterruptTime, speechFrames, sources, started>>
connVars == <<ws, connected, ctx, micPending, processors>>
playVars == <<discarded, stopLog>>
intVars == <<lastReq, reqAge, execAge, nCancel, nClear, nExec>>
detVars == <<hist, leftTurn>>
toolVars == <<functionCallArgs, isResearching, inFlight, toolLog>>
streamVars == <<callNo, ownArgs>>
vars == <<coreVars, connVars, playVars, intVars, detVars, isAssistantSpeaking,
          nextId, observe, toolVars, streamVars>>

\* The refs the handlers share, as one record.
Core ==
  [q |-> audioQueue, playing |-> isPlaying, speaking |-> isAssistantSpeakingRef,
   cur |-> currentAudioSource, last |-> lastInterruptTime, frames |-> speechFrames,
   srcs |-> sources, started |-> started]

SetCore(c) ==
  /\ audioQueue' = c.q
  /\ isPlaying' = c.playing
  /\ isAssistantSpeakingRef' = c.speaking
  /\ currentAudioSource' = c.cur
  /\ lastInterruptTime' = c.last
  /\ speechFrames' = c.frames
  /\ sources' = c.srcs
  /\ started' = IF observe = "playback" THEN c.started ELSE started

\* The spec's turn state, read off the socket and the assistant-speaking ref.
TurnState(w, speaking) ==
  IF w # "open" THEN "Idle"
  ELSE IF speaking THEN "AssistantTurn" ELSE "UserTurn"

Ids(q) == {q[i].id : i \in 1..Len(q)}

\* ------------------------------------------------------- interrupt()
\* line 258: the cooldown guard.
InCooldownOff(t, last) == t - last < 0
InCooldown(t, last) == t - last < cooldownMs

\* lines 266-273: the two instructions sent to the remote session, in order.
InterruptSendsSwapped == <<"output_audio_buffer.clear", "response.cancel">>
InterruptSends == <<"response.cancel", "output_audio_buffer.clear">>

\* source.stop(): the source falls silent at once; its ended event comes later.
StopSourceLater(srcs, id) == srcs
StopSource(srcs, id) ==
  {IF s.id = id THEN [s EXCEPT !.sounding = FALSE] ELSE s : s \in srcs}

\* The interrupt that leaves the pending chunks in the queue.
interruptKeepQueue(c, w, t) ==
  IF w # "open" \/ InCooldown(t, c.last)
  THEN [c |-> c, out |-> <<>>, called |-> TRUE, exec |-> FALSE]
  ELSE [c |-> [c EXCEPT !.last = t,
                        !.srcs = IF c.cur # 0 THEN StopSource(c.srcs, c.cur) ELSE @,
                        !.cur = 0,
                        !.playing = FALSE,
                        !.speaking = FALSE,
                        !.frames = 0],
        out |-> InterruptSends \o (IF c.cur # 0 THEN <<"source.stop">> ELSE <<>>),
        called |-> TRUE, exec |-> TRUE]

\* The local stop that drops only the chunk at the head of the queue.
localStopShift(c) ==
  [c EXCEPT !.srcs = IF c.cur # 0 THEN StopSource(c.srcs, c.cur) ELSE @,
            !.cur = 0,
            !.q = IF @ = <<>> THEN @ ELSE Tail(@),
            !.playing = FALSE,
            !.speaking = FALSE,
            !.frames = 0]

\* lines 275-289: the local stop of interrupt().
localStop(c) ==
  [c EXCEPT !.srcs = IF c.cur # 0 THEN StopSource(c.srcs, c.cur) ELSE @,
            !.cur = 0,
            !.q = <<>>,
            !.playing = FALSE,
            !.speaking = FALSE,
            !.frames = 0]

\* The rejection that restarts the cooldown.
rejectedStamp(c, t) ==
  [c |-> [c EXCEPT !.last = t], out |-> <<>>, called |-> TRUE, exec |-> FALSE]

\* lines 258-260: the call inside the cooldown window returns at once.
rejected(c, t) ==
  [c |-> c, out |-> <<>>, called |-> TRUE, exec |-> FALSE]

\* interrupt(), lines 254-293, on socket state w at time t.
interrupt(c, w, t) ==
  IF w # "open"
  THEN [c |-> c, out |-> <<>>, called |-> TRUE, exec |-> FALSE]
  ELSE IF InCooldown(t, c.last)
  THEN rejected(c, t)
  ELSE [c |-> localStop([c EXCEPT !.last = t]),
        out |-> InterruptSends
                \o (IF c.cur # 0 THEN <<"source.stop">> ELSE <<>>)
                \o <<"queue.clear">>,
        called |-> TRUE, exec |-> TRUE]

\* ------------------------------------------------------ playback queue
\* line 389: audioQueueRef.current.push(pcm16).
pushFront(q, ch) == <<ch>> \o q
push(q, ch) == Append(q, ch)

\* The while loop of playAudioQueue (lines 408-441) from its head to the next
\* await or to its exit; `live` and `inCur` describe the context the loop
\* captured at line 406.  createBuffer throws on a zero-length chunk: the
\* async function's promise rejects and line 441 is never reached.
consumeLoop(c, live, inCur) ==
  IF c.q = <<>>
  THEN [c EXCEPT !.playing = FALSE]
  ELSE LET ch == Head(c.q) IN
       IF ch.len = 0
       THEN [c EXCEPT !.q = Tail(c.q)]
       ELSE [c EXCEPT !.q = Tail(c.q),
                      !.srcs = @ \cup {[id |-> ch.id, sounding |-> live,
                                        live |-> live, inCur |-> inCur]},
                      !.cur = ch.id,
                      !.started = Append(@, ch.id)]

\* playAudioQueue(), lines 400-407, with audioContextRef.current in state x.
playAudioQueue(c, x) ==
  IF x = "none" \/ c.q = <<>>
  THEN [c EXCEPT !.playing = FALSE]
  ELSE consumeLoop([c EXCEPT !.playing = TRUE], x = "running", TRUE)

\* playAudioDelta(), lines 378-398: an undecodable payload throws before the
\* push and is caught.
playAudioDelta(c, id, payload, x) ==
  IF payload = "undecodable" THEN c
  ELSE LET c1 == [c EXCEPT !.q = push(@, [id |-> id,
                                         len |-> IF payload = "empty" THEN 0 ELSE 1])]
       IN IF ~c1.playing THEN playAudioQueue(c1, x) ELSE c1

\* ws.onmessage, lines 187-190: response.audio.delta marks the assistant as
\* speaking, then hands the payload to playAudioDelta.
onAudioDelta(c, id, payload, x) ==
  playAudioDelta([c EXCEPT !.speaking = TRUE], id, payload, x)

\* source.onended resolves the await of line 431: lines 436-438, then the loop.
onended(c, s) ==
  consumeLoop([c EXCEPT !.srcs = @ \ {s},
                        !.cur = IF @ = s.id THEN 0 ELSE @],
              s.live, s.inCur)

\* ------------------------------------------------------------ detector
RECURSIVE SumAbs(_)
\* lines 321-324: the sum of the absolute sample values.
SumAbs(f) ==
  IF f = <<>> THEN 0
  ELSE (IF Head(f) < 0 THEN -Head(f) ELSE Head(f)) + SumAbs(Tail(f))

\* line 330 with line 325: average > speechThreshold, the division cleared.
IsSpeechSum(f) == SumAbs(f) > speechThreshold
IsSpeech(f) == SumAbs(f) > speechThreshold * Len(f)

\* line 333: REALTIME_CONFIG.bargeIn.consecutiveFrames.
RequiredFramesOne == consecutiveFrames - 1
RequiredFrames == consecutiveFrames

\* line 333.
ReachedFramesStrict(n) == n > RequiredFrames
ReachedFrames(n) == n >= RequiredFrames

\* The count that falls back to 0 on a frame that is not speech.
nextCountReset(n, f) ==
  IF IsSpeech(f) THEN n + 1 ELSE 0

\* lines 330-342: the voiced-frame count after frame f while the assistant is
\* speaking, before any interrupt.
nextCount(n, f) ==
  IF IsSpeech(f) THEN n + 1
  ELSE IF n > 0 THEN n - 1 ELSE n

RECURSIVE Triggers(_, _, _)
\* lines 329-342 over the frames fs with the assistant speaking throughout,
\* starting at count n, for a configured consecutiveFrames of `required` and
\* every interrupt executed: 1 for each frame that triggers, 0 for the others.
Triggers(n, fs, required) ==
  IF fs = <<>> THEN <<>>
  ELSE LET m == nextCount(n, Head(fs))
           hit == IsSpeech(Head(fs)) /\ m >= required
       IN <<IF hit THEN 1 ELSE 0>>
            \o Triggers(IF hit THEN 0 ELSE m, Tail(fs), required)

\* Lines 348-354: the block is converted and sent after the detector ran; out
\* is what the detector's interrupt() sent before.
sendAudioFrameFirst(out) == <<"input_audio_buffer.append">> \o out
sendAudioFrame(out) == Append(out, "input_audio_buffer.append")

\* processor.onaudioprocess, lines 316-356.
onaudioprocess(c, w, t, f) ==
  IF w # "open"
  THEN [c |-> c, pre |-> c, fx |-> <<>>, sent |-> <<>>, trig |-> 0, exec |-> FALSE]
  ELSE
    LET r ==
      IF c.speaking
      THEN IF IsSpeech(f)
           THEN LET c1 == [c EXCEPT !.frames = nextCount(@, f)] IN
                IF ReachedFrames(c1.frames)
                THEN LET i == interrupt(c1, w, t) IN
                     [c |-> i.c, pre |-> c1, fx |-> i.out, trig |-> 1, exec |-> i.exec]
                ELSE [c |-> c1, pre |-> c, fx |-> <<>>, trig |-> 0, exec |-> FALSE]
           ELSE [c |-> [c EXCEPT !.frames = nextCount(@, f)],
                 pre |-> c, fx |-> <<>>, trig |-> 0, exec |-> FALSE]
      ELSE [c |-> [c EXCEPT !.frames = 0], pre |-> c, fx |-> <<>>, trig |-> 0,
            exec |-> FALSE]
    IN [c |-> r.c, pre |-> r.pre, fx |-> r.fx, sent |-> sendAudioFrame(r.fx),
        trig |-> r.trig, exec |-> r.exec]

\* One block period of the microphone, lines 314 and 358-359: each of the n
\* script processors connected to a running context calls onaudioprocess once
\* with the block f.
RECURSIVE PeriodSends(_, _, _, _, _)
PeriodSends(n, c, w, t, f) ==
  IF n = 0 THEN <<>>
  ELSE LET r == onaudioprocess(c, w, t, f)
       IN r.sent \o PeriodSends(n - 1, r.c, w, t, f)

RECURSIVE PeriodCount(_, _, _, _, _)
PeriodCount(n, c, w, t, f) ==
  IF n = 0 THEN c.frames
  ELSE PeriodCount(n - 1, onaudioprocess(c, w, t, f).c, w, t, f)

\* ------------------------------------------------- research tool calls
\* A value the research client returns or handleFunctionCall reports.
Failure(message) == [success |-> FALSE, error |-> message, data |-> "none"]
Success(tool) == [success |-> TRUE, error |-> "none", data |-> tool]

\* mcpClient.ts, lines 50-68 and 83-101: the body of the try block.  fetch
\* rejects, or the status is not ok, or response.json() rejects, or the parsed
\* body is returned as it is.
request(tool, o) ==
  IF o = "rejected"
  THEN [threw |-> TRUE, error |-> "Failed to fetch", value |-> Failure("none")]
  ELSE IF o = "status"
  THEN [threw |-> TRUE, error |-> "HTTP error", value |-> Failure("none")]
  ELSE IF o = "garbage"
  THEN [threw |-> TRUE, error |-> "Unexpected token", value |-> Failure("none")]
  ELSE IF o = "failure"
  THEN [threw |-> FALSE, error |-> "none", value |-> Failure("Research failed")]
  ELSE [threw |-> FALSE, error |-> "none", value |-> Success(tool)]

\* mcpClient.ts, lines 69-75 and 102-108: the catch block.
caughtRethrown(r) == r
caught(r) ==
  IF r.threw THEN [threw |-> FALSE, error |-> "none", value |-> Failure(r.error)]
  ELSE r

\* MCPClient.deepResearch, lines 48-76, and MCPClient.quickSearch, lines 81-109.
deepResearch(o) == caught(request("deep_research", o))
quickSearch(o) == caught(request("quick_search", o))

\* JSON.parse(argsJson), page.tsx line 58, and the read of args.query: a text
\* parses when it is exactly one complete argument text.
Parses(args) == args = ArgParts

\* handleFunctionCall, lines 57-71, up to its first await: what the try block
\* throws before any await, or the tool it goes on to call.
startCall(name, args) ==
  IF ~Parses(args) THEN [await |-> FALSE, error |-> "Unexpected token"]
  ELSE IF name \in {"deep_research", "quick_search"}
  THEN [await |-> TRUE, error |-> "none"]
  ELSE [await |-> FALSE, error |-> "Unknown function"]

FunctionOutput(id, value) ==
  [type |-> "function_call_output", call_id |-> id, output |-> value]
ResponseCreate ==
  [type |-> "response.create", call_id |-> 0, output |-> Failure("none")]

\* handleFunctionCall, lines 76-91: the result goes back and a response is
\* requested.
sendResult(w, id, value) ==
  IF w = "open" THEN <<FunctionOutput(id, value), ResponseCreate>> ELSE <<>>

\* handleFunctionCall, lines 96-114: the same for an error.
sendErrorSilent(w, id, message) == <<>>
sendError(w, id, message) ==
  IF w = "open" THEN <<FunctionOutput(id, Failure(message)), ResponseCreate>>
  ELSE <<>>

\* handleFunctionCall, lines 73-115, once the tool call r settled or the try
\* block threw: c is the refs it runs with.
finishCallResets(c, w, id, r) ==
  [c |-> [c EXCEPT !.speaking = FALSE, !.frames = 0], researching |-> FALSE,
   out |-> IF r.threw THEN sendError(w, id, r.error) ELSE sendResult(w, id, r.value)]
finishCall(c, w, id, r) ==
  [c |-> c, researching |-> FALSE,
   out |-> IF r.threw THEN sendError(w, id, r.error) ELSE sendResult(w, id, r.value)]

NoCall ==
  [valid |-> FALSE, id |-> 0, open |-> FALSE, out |-> <<>>,
   fetch |-> "none", threw |-> FALSE, res |-> Failure("none")]

\* The function call whose arguments are being streamed gets no done event
\* once its response is cancelled or its socket is gone: the remote side goes
\* on to the next call.
CutOff(cut) ==
  /\ ownArgs' = IF cut THEN <<>> ELSE ownArgs
  /\ callNo' = IF cut /\ ownArgs # <<>> THEN callNo + 1 ELSE callNo

\* ------------------------------------------------------------- history
Last2(s) == IF Len(s) > 2 THEN Tail(s) ELSE s

Count(s, m) == Cardinality({i \in 1..Len(s) : s[i] = m})

Sounding(srcs) == {s.id : s \in {x \in srcs : x.sounding}}

UpTo(n) == IF n < MaxCount THEN n ELSE MaxCount

\* Where a frame's mean absolute amplitude lies relative to the threshold.
Level(f) ==
  IF SumAbs(f) > speechThreshold * Len(f) THEN "above"
  ELSE IF SumAbs(f) = speechThreshold * Len(f) THEN "at" ELSE "below"

\* A recorded time one tick later: a point in time moves into the past, an age
\* grows; both stop at the cooldown window.
EarlierStuck(t) == t
Earlier(t) == IF t - TickMs < Now - cooldownMs THEN Now - cooldownMs ELSE t - TickMs
Older(a) == IF a + TickMs > cooldownMs THEN cooldownMs ELSE a + TickMs

NoReq ==
  [valid |-> FALSE, src |-> "none", exec |-> FALSE, fx |-> <<>>,
   gap |-> cooldownMs, execGap |-> cooldownMs, prevExec |-> FALSE,
   same |-> TRUE, turn |-> "Idle"]

NoStop ==
  [valid |-> FALSE, playing |-> {}, queued |-> {}, still |-> {},
   post |-> [q |-> <<>>, playing |-> FALSE, cur |-> 0, speaking |-> FALSE,
             frames |-> 0, turn |-> "Idle"]]

\* One call of interrupt() by `src`: i is its result, pre the refs before it,
\* final the refs when the calling handler returns.
LogInterrupt(src, i, pre, final) ==
  /\ IF observe = "interrupt"
     THEN /\ lastReq' =
               [valid |-> TRUE, src |-> src, exec |-> i.exec, fx |-> i.out,
                gap |-> reqAge, execGap |-> execAge, prevExec |-> lastReq.exec,
                same |-> (i.c = pre), turn |-> TurnState(ws, pre.speaking)]
          /\ reqAge' = 0
          /\ execAge' = IF i.exec THEN 0 ELSE execAge
          /\ nExec' = UpTo(nExec + IF i.exec THEN 1 ELSE 0)
          /\ nCancel' = UpTo(nCancel + Count(i.out, "response.cancel"))
          /\ nClear' = UpTo(nClear + Count(i.out, "output_audio_buffer.clear"))
     ELSE UNCHANGED intVars
  /\ IF observe = "playback" /\ i.exec
     THEN /\ discarded' = discarded \cup Ids(pre.q)
          /\ stopLog' =
               [valid |-> TRUE, playing |-> Sounding(pre.srcs),
                queued |-> Ids(pre.q), still |-> Sounding(final.srcs),
                post |-> [q |-> i.c.q, playing |-> i.c.playing, cur |-> i.c.cur,
                          speaking |-> i.c.speaking, frames |-> i.c.frames,
                          turn |-> TurnState(ws, i.c.speaking)]]
     ELSE UNCHANGED playVars

NoInterrupt == UNCHANGED <<playVars, intVars>>

\* Whether the turn state has left AssistantTurn since the last frame.
Track ==
  /\ hist' = hist
  /\ leftTurn' = IF observe = "detector"
                 THEN leftTurn \/ TurnState(ws', isAssistantSpeakingRef') # "AssistantTurn"
                 ELSE leftTurn

\* ---------------------------------------------------------------- Init
Init ==
  /\ ws = "none" /\ connected = FALSE /\ ctx = "none"
  /\ micPending = 0 /\ processors = 0
  /\ audioQueue = <<>> /\ isPlaying = FALSE
  /\ isAssistantSpeakingRef = FALSE /\ isAssistantSpeaking = FALSE
  /\ currentAudioSource = 0 /\ lastInterruptTime = 0 /\ speechFrames = 0
  /\ sources = {} /\ nextId = 1
  /\ observe \in Observers
  /\ started = <<>> /\ discarded = {} /\ stopLog = NoStop
  /\ lastReq = NoReq /\ reqAge = cooldownMs /\ execAge = cooldownMs
  /\ nCancel = 0 /\ nClear = 0 /\ nExec = 0
  /\ hist = <<>> /\ leftTurn = TRUE
  /\ functionCallArgs = <<>> /\ isResearching = FALSE /\ inFlight = {}
  /\ callNo = 1 /\ ownArgs = <<>> /\ toolLog = NoCall

\* ------------------------------------------------------------- actions
\* Time passes.
Tick ==
  /\ lastInterruptTime' = Earlier(lastInterruptTime)
  /\ reqAge' = IF observe = "interrupt" THEN Older(reqAge) ELSE reqAge
  /\ execAge' = IF observe = "interrupt" THEN Older(execAge) ELSE execAge
  /\ UNCHANGED <<audioQueue, isPlaying, isAssistantSpeakingRef, currentAudioSource,
                 speechFrames, sources, started, connVars, playVars, lastReq,
                 nCancel, nClear, nExec, detVars, isAssistantSpeaking, nextId,
                 observe, toolVars, streamVars>>

\* onConnect, lines 470-474, and connectWithWebSocket up to line 246.  The
\* Connect button is pressed only once the previous socket has closed and its
\* microphone prompt is answered.
ClickConnect ==
  /\ ~connected /\ ws \in {"none", "closed"}
  /\ micPending < MaxPending
  /\ ws' = "connecting"
  /\ NoInterrupt
  /\ UNCHANGED <<coreVars, connected, ctx, micPending, processors,
                 isAssistantSpeaking, nextId, observe, toolVars, streamVars>>
  /\ Track

\* ws.onopen, lines 139-166: session.update, then initializeAudio() runs up to
\* its await of getUserMedia.
WsOpen ==
  /\ ws = "connecting"
  /\ ws' = "open" /\ connected' = TRUE
  /\ micPending' = micPending + 1
  /\ NoInterrupt
  /\ UNCHANGED <<coreVars, ctx, processors, isAssistantSpeaking, nextId, observe,
                 toolVars, streamVars>>
  /\ Track

\* ws.onclose, lines 240-244: the remote side closes or the socket fails, or
\* the close started by the user completes.
WsClose ==
  /\ ws \in {"connecting", "open", "closing"}
  /\ ws' = "closed" /\ connected' = FALSE
  /\ NoInterrupt
  /\ UNCHANGED <<coreVars, ctx, micPending, processors, isAssistantSpeaking,
                 nextId, observe, toolVars>>
  /\ CutOff(TRUE)
  /\ Track

\* initializeAudio, lines 306-359, after getUserMedia resolved: a new context
\* and script processor; a context left running by an earlier session stays.
MicGranted ==
  /\ micPending > 0
  /\ processors < ProcessorLimit(observe)
  /\ micPending' = micPending - 1
  /\ ctx' = "running" /\ processors' = processors + 1
  /\ sources' = {[s EXCEPT !.inCur = FALSE] : s \in sources}
  /\ NoInterrupt
  /\ UNCHANGED <<audioQueue, isPlaying, isAssistantSpeakingRef, currentAudioSource,
                 lastInterruptTime, speechFrames, started, ws, connected,
                 isAssistantSpeaking, nextId, observe, toolVars, streamVars>>
  /\ Track

\* initializeAudio, lines 361-364: getUserMedia rejected.
MicDenied ==
  /\ micPending > 0
  /\ micPending' = micPending - 1
  /\ NoInterrupt
  /\ UNCHANGED <<coreVars, ws, connected, ctx, processors, isAssistantSpeaking,
                 nextId, observe, toolVars, streamVars>>
  /\ Track

\* context.close(): the sources of the closed context fall silent.
CloseContext(srcs) ==
  {IF s.inCur THEN [s EXCEPT !.sounding = FALSE, !.live = FALSE] ELSE s : s \in srcs}

\* onConnect, lines 456-469: the Disconnect button.
ClickDisconnect ==
  /\ connected
  /\ LET i == interrupt(Core, ws, Now)
         c == [i.c EXCEPT !.speaking = FALSE,
                          !.srcs = IF ctx = "none" THEN @ ELSE CloseContext(@)]
     IN /\ SetCore(c)
        /\ LogInterrupt("disconnect", i, Core, c)
  /\ ctx' = IF ctx = "none" THEN "none" ELSE "closed"
  /\ processors' = IF ctx = "running" THEN processors - 1 ELSE processors
  /\ ws' = IF ws = "open" THEN "closing" ELSE ws
  /\ connected' = FALSE
  /\ isAssistantSpeaking' = FALSE
  /\ UNCHANGED <<micPending, nextId, observe, toolVars>>
  /\ CutOff(TRUE)
  /\ Track

\* The Interrupt button, line 496: enabled while the page shows the assistant
\* speaking.
ManualInterrupt ==
  /\ connected /\ isAssistantSpeaking
  /\ LET i == interrupt(Core, ws, Now)
     IN /\ SetCore(i.c)
        /\ LogInterrupt("manual", i, Core, i.c)
  /\ UNCHANGED <<connVars, isAssistantSpeaking, nextId, observe, toolVars>>
  /\ CutOff(interrupt(Core, ws, Now).exec)
  /\ Track

\* One block of microphone samples, drawn from `frames`, reaches a script
\* processor.
FrameOf(frames) ==
  /\ processors > 0
  /\ \E f \in frames :
       LET r == onaudioprocess(Core, ws, Now, f)
       IN /\ r.c.frames <= MaxSpeechFrames
          /\ SetCore(r.c)
          /\ IF r.trig = 1
             THEN LogInterrupt("detector", [c |-> r.c, out |-> r.fx, exec |-> r.exec],
                               r.pre, r.c)
             ELSE NoInterrupt
          /\ CutOff(r.exec)
          /\ IF observe = "detector"
             THEN /\ hist' = Last2(Append(hist,
                               [level |-> Level(f), before |-> speechFrames,
                                after |-> r.c.frames,
                                turn |-> TurnState(ws, isAssistantSpeakingRef),
                                flag |-> isAssistantSpeakingRef,
                                sent |-> r.sent,
                                trig |-> r.trig, cont |-> ~leftTurn]))
                  /\ leftTurn' = (TurnState(ws, r.c.speaking) # "AssistantTurn")
             ELSE UNCHANGED detVars
  /\ UNCHANGED <<connVars, isAssistantSpeaking, nextId, observe, toolVars>>

Frame == FrameOf([1..FrameLen -> Samples])

\* The user speaks without pause: every block is above the threshold.
LoudFrame == FrameOf({f \in [1..FrameLen -> Samples] : IsSpeech(f)})

\* ws.onmessage, lines 183-186: response.created.
ResponseCreated ==
  /\ ws = "open"
  /\ SetCore([Core EXCEPT !.speaking = TRUE])
  /\ isAssistantSpeaking' = TRUE
  /\ NoInterrupt
  /\ UNCHANGED <<connVars, nextId, observe, toolVars, streamVars>>
  /\ Track

\* ws.onmessage, lines 187-190: response.audio.delta.
AudioDelta ==
  /\ ws = "open"
  /\ \E payload \in Payloads :
       /\ payload # "undecodable" => nextId <= ChunkLimit(observe)
       /\ SetCore(onAudioDelta(Core, nextId, payload, ctx))
       /\ nextId' = IF payload = "undecodable" THEN nextId ELSE nextId + 1
  /\ NoInterrupt
  /\ UNCHANGED <<connVars, isAssistantSpeaking, observe, toolVars, streamVars>>
  /\ Track

\* ws.onmessage, lines 197-211: response.done, response.audio.done and
\* response.cancelled are handled alike.
ResponseDone ==
  /\ ws = "open"
  /\ \E type \in DoneTypes :
       /\ SetCore([Core EXCEPT !.speaking = FALSE])
       /\ CutOff(type = "response.cancelled")
  /\ isAssistantSpeaking' = FALSE
  /\ NoInterrupt
  /\ UNCHANGED <<connVars, nextId, observe, toolVars>>
  /\ Track

\* A source's ended event: its consume loop resumes.
SourceEnded ==
  /\ \E s \in sources : SetCore(onended(Core, s))
  /\ NoInterrupt
  /\ UNCHANGED <<connVars, isAssistantSpeaking, nextId, observe, toolVars, streamVars>>
  /\ Track

\* ws.onmessage, lines 212-215: response.function_call_arguments.delta.
ArgsDelta ==
  /\ ws = "open" /\ callNo <= MaxCalls
  /\ Len(ownArgs) < Len(ArgParts)
  /\ Len(functionCallArgs) < MaxArgs
  /\ functionCallArgs' = Append(functionCallArgs, ArgParts[Len(ownArgs) + 1])
  /\ ownArgs' = Append(ownArgs, ArgParts[Len(ownArgs) + 1])
  /\ NoInterrupt
  /\ UNCHANGED <<coreVars, connVars, detVars, isAssistantSpeaking, nextId, observe,
                 isResearching, inFlight, toolLog, callNo>>

\* ws.onmessage, lines 216-228: response.function_call_arguments.done, and
\* handleFunctionCall up to its first await, or to its end when it throws
\* before awaiting.
ArgsDone ==
  /\ ws = "open" /\ callNo <= MaxCalls
  /\ \E name \in ToolNames :
       LET s == startCall(name, functionCallArgs)
           r == finishCall(Core, ws, callNo,
                           [threw |-> TRUE, error |-> s.error, value |-> Failure("none")])
       IN IF s.await
          THEN /\ inFlight' = inFlight \cup {[id |-> callNo, name |-> name]}
               /\ isResearching' = TRUE
               /\ UNCHANGED <<coreVars, toolLog>>
          ELSE /\ SetCore(r.c)
               /\ isResearching' = r.researching
               /\ toolLog' = [valid |-> TRUE, id |-> callNo,
                              open |-> ws = "open", out |-> r.out, fetch |-> "none",
                              threw |-> FALSE, res |-> Failure("none")]
               /\ UNCHANGED inFlight
  /\ functionCallArgs' = <<>>
  /\ ownArgs' = <<>> /\ callNo' = callNo + 1
  /\ NoInterrupt
  /\ UNCHANGED <<connVars, detVars, isAssistantSpeaking, nextId, observe>>

\* handleFunctionCall, lines 64-115, resumed when the research client's
\* promise settles.
ToolSettled ==
  \E call \in inFlight, o \in Fetches :
    LET m == IF call.name = "deep_research" THEN deepResearch(o) ELSE quickSearch(o)
        r == finishCall(Core, ws, call.id, m)
    IN /\ SetCore(r.c)
       /\ isResearching' = r.researching
       /\ inFlight' = inFlight \ {call}
       /\ toolLog' = [valid |-> TRUE, id |-> call.id,
                      open |-> ws = "open", out |-> r.out, fetch |-> o,
                      threw |-> m.threw, res |-> m.value]
       /\ NoInterrupt
       /\ UNCHANGED <<connVars, detVars, isAssistantSpeaking, nextId, observe,
                      functionCallArgs, streamVars>>

Next ==
  \/ Tick
  \/ ClickConnect
  \/ WsOpen
  \/ WsClose
  \/ MicGranted
  \/ MicDenied
  \/ ClickDisconnect
  \/ ManualInterrupt
  \/ Frame
  \/ ResponseCreated
  \/ AudioDelta
  \/ ResponseDone
  \/ SourceEnded

Spec == Init /\ [][Next]_vars

\* The same page while the user keeps speaking: every microphone block is
\* loud.  The script processor keeps delivering blocks and the clock keeps
\* advancing.
LiveInit == Init /\ observe = "liveness"

LiveNext ==
  \/ Tick
  \/ ClickConnect
  \/ WsOpen
  \/ WsClose
  \/ MicGranted
  \/ MicDenied
  \/ ClickDisconnect
  \/ ManualInterrupt
  \/ LoudFrame
  \/ ResponseCreated
  \/ AudioDelta
  \/ ResponseDone
  \/ SourceEnded

LiveSpec ==
  LiveInit /\ [][LiveNext]_vars /\ WF_vars(LoudFrame) /\ WF_vars(Tick)

\* The same page when the assistant calls the research tools.
ToolInit == Init /\ observe = "tools"

ToolNext ==
  \/ Next
  \/ ArgsDelta
  \/ ArgsDone
  \/ ToolSettled

ToolSpec == ToolInit /\ [][ToolNext]_vars

\* -------------------------------------------------------------- claims
StrictlyIncreasing(s) == \A i, j \in 1..Len(s) : i < j => s[i] < s[j]

Before(s, a, b) ==
  \A i, j \in 1..Len(s) : s[i] = a /\ s[j] = b => i < j

\* C1: at every instant at most one audio chunk is sounding, whatever the
\* interleaving of audio deltas, ended events and interrupts.
C1_AtMostOnePlaying == Cardinality(Sounding(sources)) <= 1

\* C2: when the interrupt's local stop runs, every chunk that was playing is
\* cut short and no chunk that was queued behind it is started afterwards.
C2_StopCutsShort ==
  /\ stopLog.valid => stopLog.still = {}
  /\ \A i \in 1..Len(started) : started[i] \notin discarded

\* C3: chunks begin playback in the order their audio deltas were received,
\* and no chunk is started twice.
C3_ArrivalOrder == StrictlyIncreasing(started)

C3_Witness ==
  /\ Len(started) = 3
  /\ Cardinality(sources) = 2

C5_AfterInterrupt ==
  stopLog.valid =>
    stopLog.post = [q |-> <<>>, playing |-> FALSE, cur |-> 0, speaking |-> FALSE,
                    frames |-> 0, turn |-> "UserTurn"]

C5_Witness ==
  /\ stopLog.valid
  /\ Cardinality(stopLog.queued) >= 2
  /\ stopLog.playing # {}

C7_Dormant ==
  \A i \in 1..Len(hist) :
    hist[i].turn # "AssistantTurn" /\ ~hist[i].flag
      => hist[i].trig = 0 /\ hist[i].after = 0

\* C8: a frame whose amplitude is below the threshold emits no trigger,
\* whatever the turn state and the voiced-frame count.
C8_Hysteresis ==
  \A i \in 1..Len(hist) : hist[i].level = "below" => hist[i].trig = 0

C8_Witness ==
  /\ Len(hist) = 2
  /\ hist[2].level = "below" /\ hist[2].turn = "AssistantTurn"
  /\ hist[2].before >= consecutiveFrames

\* C9: from a count of 0, a frame above the threshold followed by a frame
\* below it emits no trigger.
C9_AboveThenBelow ==
  Len(hist) = 2 /\ hist[1].level = "above" /\ hist[1].before = 0
                /\ hist[2].level = "below"
    => hist[1].trig = 0 /\ hist[2].trig = 0

C9_Witness ==
  /\ Len(hist) = 2
  /\ hist[1].level = "above" /\ hist[1].before = 0 /\ hist[1].after = 1
  /\ hist[2].level = "below" /\ hist[2].before = 1 /\ hist[2].after = 0

\* C10: from a count of 0, two consecutive frames above the threshold, both
\* received in AssistantTurn, emit no trigger on the first and one on the
\* second.
C10_TwoAbove ==
  Len(hist) = 2 /\ hist[1].level = "above" /\ hist[1].before = 0
                /\ hist[1].turn = "AssistantTurn"
                /\ hist[2].level = "above" /\ hist[2].turn = "AssistantTurn"
                /\ hist[2].cont
    => hist[1].trig = 0 /\ hist[2].trig = 1

C10_Witness ==
  /\ Len(hist) = 2
  /\ hist[1].level = "above" /\ hist[1].before = 0 /\ hist[1].turn = "AssistantTurn"
  /\ hist[2].level = "above" /\ hist[2].turn = "AssistantTurn" /\ hist[2].cont
  /\ hist[2].trig = 1

\* C11: a manual or detector-triggered interrupt request that arrives while the
\* turn state is not AssistantTurn sends nothing and changes no state.
C11_IgnoredOutsideTurn ==
  lastReq.valid /\ lastReq.src \in {"manual", "detector"}
                /\ lastReq.turn # "AssistantTurn"
    => ~lastReq.exec /\ lastReq.fx = <<>> /\ lastReq.same

\* C12: manual and detector-triggered interrupts are one operation: whether a
\* request of either kind executes depends on the cooldown alone, and the
\* turn-state guard of the Interrupt button (the page's assistant-speaking
\* state) agrees with the detector's (the assistant-speaking ref).
C12_SameOperation ==
  /\ lastReq.valid /\ lastReq.src \in {"manual", "detector"}
       => (lastReq.exec <=> lastReq.execGap >= cooldownMs)
  /\ connected /\ ws = "open" => (isAssistantSpeaking <=> isAssistantSpeakingRef)

\* C13: the local stop is idempotent, and on an empty queue that is not
\* playing it leaves the queue, the playing flag and the current source as
\* they are.
C13_StopIdempotent ==
  /\ localStop(localStop(Core)) = localStop(Core)
  /\ audioQueue = <<>> /\ ~isPlaying /\ currentAudioSource = 0
       => LET c == localStop(Core)
          IN c.q = audioQueue /\ c.playing = isPlaying /\ c.cur = currentAudioSource

C13_Witness ==
  /\ stopLog.valid /\ Cardinality(stopLog.queued) >= 1 /\ stopLog.playing # {}
  /\ audioQueue = <<>> /\ ~isPlaying /\ currentAudioSource = 0

\* C14: an audio chunk received while the turn state is not AssistantTurn is
\* neither enqueued nor played.
C14_LateAudioDiscarded ==
  [][nextId' # nextId /\ TurnState(ws, isAssistantSpeakingRef) # "AssistantTurn"
       => audioQueue' = audioQueue /\ sources' = sources]_vars

\* C15: when the remote side closes or fails an open socket, the
\* assistant-speaking flag is cleared, the playback queue is stopped and
\* emptied, and the voiced-frame count is reset to 0.
C15_FaultResets ==
  [][ws = "open" /\ ws' = "closed"
       => /\ ~isAssistantSpeakingRef'
          /\ audioQueue' = <<>> /\ ~isPlaying' /\ Sounding(sources') = {}
          /\ speechFrames' = 0]_vars

\* C16: after the Disconnect button's handler, whatever the state before it,
\* the playback queue is empty, nothing is sounding, the playing flag and the
\* assistant-speaking flag are false and the voiced-frame count is 0.
C16_DisconnectResets ==
  [][connected /\ ws = "open" /\ ws' = "closing"
       => /\ audioQueue' = <<>> /\ Sounding(sources') = {} /\ ~isPlaying'
          /\ ~isAssistantSpeakingRef' /\ speechFrames' = 0]_vars

\* C17: after every handler the page's assistant-speaking state, which enables
\* the Interrupt button, equals the assistant-speaking ref.
C17_UiMatchesFlag == isAssistantSpeaking = isAssistantSpeakingRef

\* The detector is armed: the socket is open, a script processor delivers
\* microphone blocks and the assistant-speaking ref is set.
Armed == ws = "open" /\ processors > 0 /\ isAssistantSpeakingRef

\* C18: while the user keeps producing loud frames the assistant does not go
\* on speaking for ever: an armed detector leads to the assistant-speaking ref
\* being cleared, by an executed interrupt at the latest once the cooldown has
\* elapsed, unless the response or the connection ends first.
C18_BargeInLive == Armed ~> ~Armed

C18_Witness ==
  /\ observe = "liveness" /\ Armed
  /\ speechFrames >= consecutiveFrames
  /\ InCooldown(Now, lastInterruptTime)

\* C19: a chunk that fails to play is dropped and the consume loop goes on:
\* whenever the playing flag is set, a consume loop is waiting for a source
\* to end.
C19_BadChunkDropped == isPlaying => sources # {}

\* C20: an audio delta that fails to decode leaves the turn state, the
\* voiced-frame count and the playback queue as they were.
C20_MalformedIgnored ==
  ws = "open" =>
    LET c == onAudioDelta(Core, nextId, "undecodable", ctx)
    IN /\ TurnState(ws, c.speaking) = TurnState(ws, isAssistantSpeakingRef)
       /\ c.frames = speechFrames
       /\ c.q = audioQueue

\* C21: after every frame the detector handles on an open socket the
\* voiced-frame count is below the required number of frames: a count that
\* reaches it is reset to 0 with the trigger.
C21_CountBelowRequired ==
  \A i \in 1..Len(hist) :
    hist[i].turn # "Idle" => hist[i].after < consecutiveFrames

C23_RejectedNoOp ==
  lastReq.valid =>
    /\ ~lastReq.exec => lastReq.fx = <<>> /\ lastReq.same
    /\ lastReq.exec <=> lastReq.execGap >= cooldownMs

C23_Witness ==
  /\ lastReq.valid /\ lastReq.src = "detector"
  /\ ~lastReq.exec /\ ~lastReq.prevExec
  /\ lastReq.execGap > 0 /\ lastReq.execGap < cooldownMs

\* C24: the assistant-speaking ref becomes true only on response.created,
\* never in the step that receives an audio chunk.
C24_OnlyResponseStarted ==
  [][~isAssistantSpeakingRef /\ isAssistantSpeakingRef' => nextId' = nextId]_vars

\* C25: whenever a chunk is sounding or waiting in the playback queue, the
\* assistant-speaking ref is true.
C25_SpeakingWhileAudible ==
  Sounding(sources) # {} \/ audioQueue # <<>> => isAssistantSpeakingRef

\* C26: a call of interrupt() that passes the cooldown guard stops the current
\* source and empties the playback queue, whatever the state of the socket.
C26_AlwaysSilences ==
  ~InCooldown(Now, lastInterruptTime) =>
    LET i == interrupt(Core, ws, Now)
    IN /\ i.c.q = <<>>
       /\ currentAudioSource \notin Sounding(i.c.srcs)

\* C27: enqueueing onto an idle queue starts the consume loop, so that every
\* queued chunk is started in the end: after every handler, chunks wait in the
\* queue only while a consume loop is waiting for a source to end.
C27_EnqueueStartsLoop == audioQueue # <<>> => sources # {}

\* C28: the playing flag is true exactly when a consume loop is in progress,
\* that is, waiting for a source it started to end.
C28_PlayingIffLoop == isPlaying <=> sources # {}

\* C29: the interrupt sequence is one step: the step that sends
\* response.cancel also sends output_audio_buffer.clear, stops the current
\* source and leaves the queue empty and the flags and the count reset, so no
\* handler runs in between.
C29_OneStep ==
  [][nCancel' # nCancel
       => /\ nClear' # nClear
          /\ audioQueue' = <<>> /\ ~isPlaying' /\ currentAudioSource' = 0
          /\ currentAudioSource \notin Sounding(sources')
          /\ ~isAssistantSpeakingRef' /\ speechFrames' = 0]_vars

C29_Witness ==
  /\ lastReq.valid /\ lastReq.exec /\ lastReq.src = "detector"
  /\ Count(lastReq.fx, "source.stop") = 1 /\ reqAge = 0
  /\ audioQueue = <<>> /\ sources # {} /\ Sounding(sources) = {}

\* C30: when a connection is established, a reconnect included, the playback
\* queue is empty, the playing flag and the assistant-speaking ref are false,
\* the voiced-frame count is 0 and no cooldown is in force.
C30_FreshOnConnect ==
  [][ws = "connecting" /\ ws' = "open"
       => /\ audioQueue' = <<>> /\ ~isPlaying'
          /\ ~isAssistantSpeakingRef' /\ speechFrames' = 0
          /\ ~InCooldown(Now, lastInterruptTime')]_vars

\* C31: at most one capture callback is active: in one block period of the
\* microphone at most one input_audio_buffer.append is sent and the
\* voiced-frame count moves by at most one, whatever connects, remote closes,
\* disconnects and reconnects came before.
C31_OneCallbackPerPeriod ==
  \A f \in [1..FrameLen -> Samples] :
    /\ Count(PeriodSends(processors, Core, ws, Now, f), "input_audio_buffer.append") <= 1
    /\ PeriodCount(processors, Core, ws, Now, f) - speechFrames <= 1
\* C32: every block captured while the socket is open is forwarded as exactly
\* one input_audio_buffer.append, in every turn state and in capture order (it
\* is the last message its callback sends); the append of a block that
\* triggers an interrupt follows that interrupt's cancel and clear.
C32_ForwardedOnce ==
  \A i \in 1..Len(hist) :
    hist[i].turn # "Idle" =>
      /\ Count(hist[i].sent, "input_audio_buffer.append") = 1
      /\ hist[i].sent[Len(hist[i].sent)] = "input_audio_buffer.append"
      /\ hist[i].trig = 1 /\ Len(hist[i].sent) > 1 =>
            /\ Before(hist[i].sent, "response.cancel", "input_audio_buffer.append")
            /\ Before(hist[i].sent, "output_audio_buffer.clear", "input_audio_buffer.append")

\* Two blocks in a row were forwarded, the second triggering an interrupt that
\* executed.
C32_Witness ==
  /\ Len(hist) = 2
  /\ hist[1].turn = "AssistantTurn" /\ hist[1].sent = <<"input_audio_buffer.append">>
  /\ hist[2].turn = "AssistantTurn" /\ hist[2].trig = 1
  /\ Count(hist[2].sent, "response.cancel") = 1
  /\ Count(hist[2].sent, "output_audio_buffer.clear") = 1
\* C33: the cooldown window is the configured bargeIn.cooldownMs: whatever
\* value is configured, interrupt() on an open socket rejects the request if
\* and only if now minus lastInterruptTimestamp is strictly less than it.
C33_WindowFromConfig ==
  \A configured \in CooldownSettings :
    ws = "open" =>
      (~interrupt(Core, ws, Now).exec <=> Now - lastInterruptTime < configured)

\* C34: with bargeIn.enabled set to false no microphone block triggers an
\* interrupt, whatever its level and the turn state.
C34_DisabledNeverTriggers ==
  \A enabled \in EnabledSettings :
    ~enabled => \A i \in 1..Len(hist) : hist[i].trig = 0

\* C35: every completed function call, whether the tool succeeds or fails, the
\* name is unknown or the arguments do not parse, is answered with exactly one
\* function_call_output carrying its call_id followed by exactly one
\* response.create when the socket is open as the call finishes, and with
\* nothing when it is not.
C35_OneOutputThenCreate ==
  toolLog.valid =>
    IF toolLog.open
    THEN /\ Len(toolLog.out) = 2
         /\ toolLog.out[1].type = "function_call_output"
         /\ toolLog.out[1].call_id = toolLog.id
         /\ toolLog.out[2].type = "response.create"
    ELSE toolLog.out = <<>>

\* The second function call named an unknown tool and was answered with the
\* error on an open socket.
C35_Witness ==
  /\ toolLog.valid /\ toolLog.open /\ toolLog.id = MaxCalls
  /\ Len(toolLog.out) = 2
  /\ toolLog.out[1].output = Failure("Unknown function")

\* C36: the argument text handed to handleFunctionCall by a done event is
\* exactly the pieces streamed for that function call, in order: nothing of
\* an earlier call that was interrupted, cancelled or cut off by a disconnect
\* is in it.
C36_OwnArgsOnly ==
  [][functionCallArgs # <<>> /\ functionCallArgs' = <<>> =>
       functionCallArgs = ownArgs]_vars

\* C37: handleFunctionCall, from its start to its end, leaves the
\* assistant-speaking flag, the voiced-frame count, lastInterruptTimestamp
\* and the playback queue as they are.
C37_ToolLeavesCore ==
  [][inFlight' # inFlight \/ toolLog' # toolLog =>
       UNCHANGED <<isAssistantSpeakingRef, speechFrames, lastInterruptTime,
                   audioQueue>>]_vars

\* A research call settled while the assistant was speaking, a voiced block
\* was counted, a chunk was queued and an interrupt had been made.
C37_Witness ==
  /\ toolLog.valid /\ toolLog.fetch = "success"
  /\ isAssistantSpeakingRef /\ speechFrames > 0
  /\ audioQueue # <<>> /\ lastInterruptTime > 0

\* C38: the Researching indicator is on exactly while at least one tool call
\* is in flight.
C38_ResearchingIffInFlight == isResearching <=> inFlight # {}

\* C39: deepResearch and quickSearch never throw: a rejected fetch, a status
\* that is not ok and a body that is not JSON each come back as the value
\* {success: false, error: message}.
C39_FailureIsAValue ==
  toolLog.valid /\ toolLog.fetch # "none" =>
    /\ ~toolLog.threw
    /\ toolLog.fetch = "rejected" => toolLog.res = Failure("Failed to fetch")
    /\ toolLog.fetch = "status" => toolLog.res = Failure("HTTP error")
    /\ toolLog.fetch = "garbage" => toolLog.res = Failure("Unexpected token")

\* A research call whose response body was not JSON has settled.
C39_Witness ==
  /\ toolLog.valid /\ toolLog.fetch = "garbage"
  /\ toolLog.res.success = FALSE
====
